---- MODULE Spec2Model ----
(***************************************************************************)
(* Fixed-size slot pool of cwago_utility/src/mem.rs: Pool::new, Pool::alloc *)
(* and Drop for Pool, with the two operations the conformance test calls   *)
(* but mem.rs does not define (Pool::dealloc, Pool::is_manage).            *)
(*                                                                         *)
(* Addresses are integers.  A usize value is held as its two's-complement  *)
(* representative: r >= 0 is itself, r < 0 stands for 2^64 + r.            *)
(***************************************************************************)
EXTENDS Integers, Sequences, FiniteSets, TLC

\* ---- bounds of the model ----
MaxCount == 3      \* largest slot count tried by the main specification
MaxSize  == 9      \* largest slot size tried by the main specification
MaxViol  == 1      \* dealloc calls on an address that is not outstanding
MaxWrap  == 1      \* how far below zero (wrapped) allocs may push current_count

\* ---- program constants ----
PTR_SIZE  == 8     \* size_of::<*mut u8>() on a 64-bit target
SIZE_MAX  == 256
COUNT_MAX == 256
LAPS      == 3
NULL      == 0     \* null_mut()
UNINIT    == -1    \* a word of the region nothing has been stored in

VARIABLES
    size, count,            \* the arguments of Pool::new
    pc,                     \* "init" | "live" | "none" | "panicked" | "dropped"
    elements_count, current_count, layout, buffer, top,   \* struct Pool
    mem,                    \* first machine word of the slots: address -> word
    heap_allocs,            \* calls of std::alloc::alloc: [layout, ptr returned], in order
    heap_deallocs,          \* <<ptr, layout>> handed to std::alloc::dealloc, in order
    lastOp, ret, ok, arg,   \* last pool call, alloc's result, dealloc's result and argument
    out,                    \* addresses returned by alloc and not released since
    viol,                   \* accepted dealloc calls on an address that was not outstanding
    foreign,                \* some dealloc call was given an address is_manage rejects
    reused,                 \* the address whose accepted release directly preceded the last alloc
    fresh,                  \* no dealloc call since construction
    hist,                   \* while fresh: the results of the alloc calls so far
    lap, filled,            \* completed fill-and-drain cycles; pool was full in this cycle
    aliased                 \* the last two calls were allocs that returned the same slot

vars == << size, count, pc, elements_count, current_count, layout, buffer, top,
           mem, heap_allocs, heap_deallocs, lastOp, ret, ok, arg, out, viol,
           foreign, reused, fresh, hist, lap, filled, aliased >>

poolVars  == << elements_count, current_count, layout, buffer, top, mem >>
ghostVars == << lastOp, ret, ok, arg, out, viol, foreign, reused, fresh, hist,
               lap, filled, aliased >>

\* every dealloc so far was given an outstanding address
contract == viol = 0 /\ ~foreign

\* ---- helpers ----
Min(a, b) == IF a < b THEN a ELSE b

RECURSIVE NextPow2From(_, _)
NextPow2From(p, x) == IF p >= x THEN p ELSE NextPow2From(2 * p, x)

\* usize::next_power_of_two: the smallest power of two >= x
next_power_of_two(x) == NextPow2From(1, x)

\* usize comparison on two's-complement representatives
UsizeLe(a, b) ==
    IF (a >= 0) = (b >= 0) THEN a <= b ELSE a >= 0

NoWords == [a \in {} |-> NULL]     \* no region

\* buffer.add(i * align)
SlotAddr_Unscaled(buf, i, align) == buf + i
SlotAddr(buf, i, align) == buf + i * align

\* the first words of the slots of a region as alloc hands it out
RawRegion(cnt, buf, align) ==
    [a \in { SlotAddr(buf, i, align) : i \in 0..(cnt - 1) } |-> UNINIT]

\* the loop of Pool::new, iterations lo .. hi-1 in ascending order, from the
\* loop state st = [top, mem]: iteration i stores top in slot i and makes
\* slot i the top.  A range of several iterations is run as its lower half
\* followed by its upper half; the test on first has the lower half
\* evaluated before the upper half is entered and chooses nothing.
RECURSIVE BuildList(_, _, _, _, _)
BuildList(lo, hi, buf, align, st) ==
    IF lo >= hi
    THEN st
    ELSE IF hi = lo + 1
    THEN LET lp == SlotAddr(buf, lo, align)
             rp == st.top
         IN  [top |-> lp, mem |-> [st.mem EXCEPT ![lp] = rp]]
    ELSE LET mid   == lo + ((hi - lo) \div 2)
             first == BuildList(lo, mid, buf, align, st)
         IN  IF first.top = NULL
             THEN BuildList(mid, hi, buf, align, first)
             ELSE BuildList(mid, hi, buf, align, first)

\* element size after the pointer-size clamp
ClampSize_None(sz) == sz
ClampSize(sz) == IF sz < PTR_SIZE THEN PTR_SIZE ELSE sz

\* stride between slots
SlotAlign(sz) == next_power_of_two(ClampSize(sz))

\* size of the region
BufSize_Raw(sz, cnt) == sz * cnt
BufSize(sz, cnt) == SlotAlign(sz) * cnt

BufLayout(sz, cnt) ==
    [size |-> BufSize(sz, cnt), align |-> next_power_of_two(BufSize(sz, cnt))]

\* the stride of a live pool, recovered from its fields
slot_stride == layout.size \div elements_count

\* the slots' start addresses a walk from t can visit in m
RECURSIVE Walk(_, _, _)
Walk(p, m, fuel) ==
    IF p = NULL \/ fuel = 0 \/ p \notin DOMAIN m
    THEN << >>
    ELSE << p >> \o Walk(m[p], m, fuel - 1)

FreeSeq(t, m) == Walk(t, m, Cardinality(DOMAIN m) + 1)
FreeSet(t, m) == { FreeSeq(t, m)[i] : i \in 1..Len(FreeSeq(t, m)) }

\* ---- Pool::is_manage ----
is_manage_RangeOnly(p) ==
    /\ buffer <= p
    /\ p < buffer + slot_stride * elements_count

is_manage(p) ==
    /\ buffer <= p
    /\ p < buffer + slot_stride * elements_count
    /\ (p - buffer) % slot_stride = 0

\* ---- initial states ----
InitCommon ==
    /\ pc = "init"
    /\ elements_count = 0 /\ current_count = 0
    /\ layout = [size |-> 0, align |-> 1]
    /\ buffer = NULL /\ top = NULL
    /\ mem = NoWords
    /\ heap_allocs = << >> /\ heap_deallocs = << >>
    /\ foreign = FALSE /\ reused = NULL
    /\ lastOp = "none" /\ ret = NULL /\ ok = FALSE /\ arg = NULL
    /\ out = {} /\ viol = 0 /\ fresh = TRUE /\ hist = << >>
    /\ lap = 0 /\ filled = FALSE /\ aliased = FALSE

Init ==
    /\ size \in {0, 1, MaxSize}
    /\ count \in 0..MaxCount
    /\ InitCommon

\* ---- Pool::new ----
\* the arguments for which no pool is made
Rejects_SizeOnly(sz, cnt) == sz = 0
Rejects(sz, cnt) == sz = 0 \/ cnt = 0

\* current_count of a new pool
InitialCount_Zero(cnt) == 0
InitialCount(cnt) == cnt

\* buffer.is_null(): the allocator answered with no region
is_null_Never(p) == FALSE
is_null(p) == p = NULL

New ==
    /\ pc = "init"
    /\ IF Rejects(size, count)
       THEN /\ pc' = "none"
            /\ UNCHANGED << poolVars, heap_allocs >>
       ELSE LET lay == BufLayout(size, count) IN
            \* alloc answers null or the lowest address so aligned
            \E buf \in { NULL, lay.align } :
                /\ heap_allocs' = Append(heap_allocs, [layout |-> lay, ptr |-> buf])
                /\ IF is_null(buf)
                   THEN /\ pc' = "none"
                        /\ UNCHANGED poolVars
                   ELSE LET built == BuildList(0, count, buf, SlotAlign(size),
                                       [top |-> NULL,
                                        mem |-> RawRegion(count, buf, SlotAlign(size))])
                        IN  /\ pc' = "live"
                            /\ elements_count' = count
                            /\ current_count' = InitialCount(count)
                            /\ layout' = lay
                            /\ buffer' = buf
                            /\ top' = built.top
                            /\ mem' = built.mem
    /\ UNCHANGED << size, count, heap_deallocs, ghostVars >>

\* ---- Pool::alloc ----
\* self.count -= 1 (the counter field is current_count)
DecCount_Keep(c) == c
DecCount(c) == c - 1

\* *ptr: the link stored in the slot handed out
PopNext_Stale(t, m) == t
PopNext(t, m) == m[t]

\* the pointer alloc returns
AllocResult_Next(t, m) == m[t]
AllocResult(t, m) == t

\* the counter after an alloc that found top null: the decrement is inside the if
CountIfEmpty_Dec(c) == c - 1
CountIfEmpty(c) == c

Alloc ==
    /\ pc = "live"
    /\ IF top # NULL
       THEN \/ /\ current_count - 1 >= 0 - MaxWrap
               /\ current_count' = DecCount(current_count)   \* wraps below zero
               /\ top' = PopNext(top, mem)
               /\ ret' = AllocResult(top, mem)
               /\ out' = (out \cup {ret'}) \ {NULL}
               /\ hist' = IF fresh /\ Len(hist) <= elements_count
                          THEN Append(hist, ret') ELSE hist
               /\ filled' = (contract /\ (filled \/ out' = DOMAIN mem))
               /\ reused' = IF lastOp = "dealloc" /\ ok THEN arg ELSE NULL
               /\ aliased' = (lastOp = "alloc" /\ ret # NULL /\ ret' = ret)
               /\ lastOp' = "alloc" /\ ok' = FALSE /\ arg' = NULL
               /\ pc' = pc
            \/ /\ current_count = 0                       \* the overflow check panics
               /\ pc' = "panicked"
               /\ UNCHANGED << current_count, top, ret, out, hist, filled, reused,
                               aliased, lastOp, ok, arg >>
       ELSE /\ ret' = NULL
            /\ current_count' = CountIfEmpty(current_count)
            /\ hist' = IF fresh /\ Len(hist) <= elements_count
                       THEN Append(hist, NULL) ELSE hist
            /\ reused' = NULL
            /\ aliased' = FALSE
            /\ lastOp' = "alloc" /\ ok' = FALSE /\ arg' = NULL
            /\ UNCHANGED << pc, top, out, filled >>
    /\ UNCHANGED << size, count, elements_count, layout, buffer, mem,
                    heap_allocs, heap_deallocs, viol, foreign, fresh, lap >>

\* ---- Pool::dealloc ----
DeallocArgs ==
    IF pc = "live"
    THEN DOMAIN mem \cup { NULL, buffer + 1, buffer + layout.size }
    ELSE {}

\* the link release stores in the first word of the slot: the old top
PushLink_Null(t, p) == NULL
PushLink(t, p) == t

\* the counter after an accepted release
IncCount_Keep(c) == c
IncCount(c) == c + 1

Dealloc(p) ==
    /\ pc = "live"
    /\ lastOp' = "dealloc"
    /\ arg' = p
    /\ ret' = NULL
    /\ fresh' = FALSE
    /\ hist' = << >>
    /\ reused' = NULL
    /\ aliased' = FALSE
    /\ IF is_manage(p)
       THEN /\ p \in out \/ viol < MaxViol
            /\ viol' = IF p \in out THEN viol ELSE viol + 1
            /\ foreign' = foreign
            /\ mem' = [mem EXCEPT ![p] = PushLink(top, p)]
            /\ top' = p
            /\ current_count' = IncCount(current_count)
            /\ ok' = TRUE
            /\ out' = out \ {p}
            /\ lap' = IF ~contract' THEN 0
                      ELSE IF filled /\ out' = {} THEN Min(lap + 1, LAPS) ELSE lap
            /\ filled' = (contract' /\ filled /\ out' # {})
       ELSE /\ ok' = FALSE
            /\ foreign' = TRUE
            /\ viol' = viol
            /\ lap' = 0
            /\ filled' = FALSE
            /\ UNCHANGED << mem, top, current_count, out >>
    /\ UNCHANGED << size, count, pc, elements_count, layout, buffer,
                    heap_allocs, heap_deallocs >>

\* ---- Drop for Pool ----
\* the pointer handed to std::alloc::dealloc
DropPtr_Top(buf, t) == t
DropPtr(buf, t) == buf

Drop ==
    /\ pc \in {"live", "panicked"}
    /\ heap_deallocs' = Append(heap_deallocs, << DropPtr(buffer, top), layout >>)
    /\ pc' = "dropped"
    /\ UNCHANGED << size, count, poolVars, heap_allocs, ghostVars >>

Next ==
    \/ New
    \/ Alloc
    \/ \E p \in DeallocArgs : Dealloc(p)
    \/ Drop

Spec == Init /\ [][Next]_vars

\* ---- construction over the whole range of the conformance test ----
InitNew ==
    /\ size \in 0..SIZE_MAX
    /\ count \in 0..COUNT_MAX
    /\ InitCommon

NextNew ==
    \/ New
    \/ Drop

SpecNew == InitNew /\ [][NextNew]_vars

TypeOK ==
    /\ pc \in {"init", "live", "none", "panicked", "dropped"}
    /\ pc = "live" => top \in DOMAIN mem \cup {NULL}

\* ---- the claims ----
\* what the specification calls a slot start of a pool with these parameters
IsSlotStart(p, base, stride, cap) ==
    /\ base <= p
    /\ p < base + stride * cap
    /\ (p - base) % stride = 0

\* every byte address from one stride below the region to one stride above it
Probe == (buffer - slot_stride) .. (buffer + layout.size + slot_stride)

\* C1: on a new pool of capacity n, with no release in between, exactly the
\* first n alloc calls return a non-null address, these n addresses are
\* pairwise distinct, and the (n+1)-th returns null.
C1_FirstNSucceed ==
    (pc = "live" /\ fresh) =>
        /\ \A i \in 1..Len(hist) : (hist[i] # NULL) <=> (i <= elements_count)
        /\ \A i, j \in 1..Len(hist) :
               (i < j /\ j <= elements_count) => hist[i] # hist[j]

C1_Witness ==
    /\ pc = "live" /\ fresh
    /\ elements_count = MaxCount
    /\ Len(hist) = elements_count + 1
    /\ hist[elements_count + 1] = NULL

\* C2: while release is only given outstanding addresses, an address returned
\* by alloc is none of the addresses outstanding before the call and is not
\* reachable from top; no outstanding address is ever on the free list.
C2_Step ==
    /\ (pc' = "live" /\ contract') => out' \cap FreeSet(top', mem') = {}
    /\ (pc' = "live" /\ contract /\ lastOp' = "alloc" /\ ret' # NULL) =>
           /\ ret' \notin out
           /\ ret' \notin FreeSet(top', mem')

C2_Disjoint == [][C2_Step]_vars

C2_Witness ==
    /\ pc = "live" /\ contract /\ ~fresh
    /\ lastOp = "alloc" /\ ret # NULL
    /\ Cardinality(out) >= 2
    /\ top # NULL

\* C3: dealloc of an address that is not a slot start of the pool returns
\* false and leaves top, current_count, every link and elements_count as
\* they were.
C3_Step ==
    (/\ pc = "live" /\ pc' = "live" /\ lastOp' = "dealloc"
     /\ ~IsSlotStart(arg', buffer, slot_stride, elements_count)) =>
        /\ ok' = FALSE
        /\ UNCHANGED poolVars

C3_RejectLeavesPool == [][C3_Step]_vars

C3_Witness ==
    /\ pc = "live" /\ lastOp = "dealloc" /\ ~ok
    /\ arg = buffer + layout.size
    /\ current_count < elements_count /\ top # NULL

\* C4: is_manage(addr) is true exactly for the addresses in
\* [base, base + stride * capacity) that lie a multiple of stride above base,
\* which are the addresses of the slots the constructor linked; the fields
\* is_manage reads stay as the constructor set them.
C4_IsManageIff ==
    pc = "live" =>
        /\ buffer = heap_allocs[1].ptr
        /\ layout = heap_allocs[1].layout
        /\ elements_count = count
        /\ lastOp = "none" =>
               LET stride == SlotAlign(size) IN
               \A p \in Probe :
                   /\ is_manage(p) <=> IsSlotStart(p, heap_allocs[1].ptr, stride, count)
                   /\ is_manage(p) <=> p \in DOMAIN mem

C4_Witness ==
    /\ pc = "live" /\ lastOp = "none" /\ elements_count = MaxCount
    /\ is_manage(buffer + slot_stride)
    /\ ~is_manage(buffer + slot_stride + 1)
    /\ ~is_manage(buffer + layout.size)
    /\ ~is_manage(buffer - 1)

\* C5: every address a returned by alloc satisfies is_manage(a), while
\* a - 1 and a + 1 do not.
C5_ReturnedOwned ==
    pc = "live" =>
        \A a \in (out \cup {ret}) \ {NULL} :
            /\ is_manage(a)
            /\ ~is_manage(a - 1)
            /\ ~is_manage(a + 1)

C5_Witness ==
    /\ pc = "live" /\ lastOp = "alloc" /\ ret # NULL
    /\ out = DOMAIN mem /\ elements_count >= 2
    /\ buffer <= ret - 1 /\ ret + 1 < buffer + layout.size

\* C6: once every outstanding slot has been released (each release being
\* accepted), current_count = elements_count and all slots are on the free
\* list, and an alloc fails only when every slot is outstanding; so the
\* fill-and-drain cycle repeats with the same outcomes.
C6_RoundTrip ==
    (pc = "live" /\ contract) =>
        /\ lastOp = "dealloc" => ok
        /\ (lastOp = "alloc" /\ ret = NULL) => out = DOMAIN mem
        /\ out = {} =>
               /\ current_count = elements_count
               /\ Len(FreeSeq(top, mem)) = elements_count
               /\ FreeSet(top, mem) = DOMAIN mem

C6_Witness ==
    /\ pc = "live" /\ contract
    /\ lap = LAPS /\ out = {}
    /\ elements_count = MaxCount
    /\ lastOp = "dealloc" /\ ok

\* C7: Pool::new with size = 0 or count = 0 returns None and never calls the
\* allocator.
C7_ZeroRejected ==
    (pc # "init" /\ (size = 0 \/ count = 0)) =>
        /\ pc = "none"
        /\ heap_allocs = << >>
        /\ heap_deallocs = << >>

C7_Witness == pc = "none" /\ size > 0 /\ count = 0

\* C8: for size and count in 1..256, Pool::new calls the allocator once and,
\* when the allocator answers with a region, returns a pool with
\* elements_count = count and current_count = elements_count.
C8_ConstructSucceeds ==
    (pc # "init" /\ size \in 1..SIZE_MAX /\ count \in 1..COUNT_MAX) =>
        /\ Len(heap_allocs) = 1
        /\ heap_allocs[1].ptr # NULL =>
               /\ pc \in {"live", "dropped"}
               /\ elements_count = count
               /\ current_count = elements_count
               /\ top # NULL

C8_Witness ==
    /\ pc = "live" /\ size = SIZE_MAX /\ count = COUNT_MAX
    /\ current_count = COUNT_MAX

\* C9: an alloc that directly follows an accepted dealloc(a) returns a.
C9_Lifo ==
    (pc = "live" /\ lastOp = "alloc" /\ reused # NULL) => ret = reused

C9_Witness ==
    /\ pc = "live" /\ lastOp = "alloc"
    /\ reused # NULL /\ ret = reused
    /\ top # NULL /\ Cardinality(out) >= 2

\* C10 as stated: 0 <= current_count <= elements_count in every state of a
\* live pool, whatever addresses dealloc is given.
C10_Original ==
    pc = "live" =>
        /\ UsizeLe(0, current_count)
        /\ UsizeLe(current_count, elements_count)

\* C10 amended: 0 <= current_count <= elements_count as long as no slot
\* address that was not outstanding has been given to dealloc.
C10_CountInRange ==
    (pc = "live" /\ viol = 0) =>
        /\ UsizeLe(0, current_count)
        /\ UsizeLe(current_count, elements_count)
        /\ current_count = elements_count - Cardinality(out)

C10_Witness ==
    /\ pc = "live" /\ viol = 0 /\ foreign
    /\ lastOp = "dealloc" /\ ok
    /\ current_count = elements_count /\ elements_count = MaxCount

\* the free list as the specification's invariant describes it: the walk from
\* top ends at null, visits current_count addresses, each a slot start, none
\* twice
WellFormedFreeList ==
    LET fs == FreeSeq(top, mem) IN
    /\ (IF fs = << >> THEN top ELSE mem[fs[Len(fs)]]) = NULL
    /\ Len(fs) = current_count
    /\ \A i \in 1..Len(fs) : IsSlotStart(fs[i], buffer, slot_stride, elements_count)
    /\ \A i, j \in 1..Len(fs) : i < j => fs[i] # fs[j]

\* C11 as stated: in every state of a live pool, whatever addresses dealloc
\* was given, the walk from top ends at null, visits exactly current_count
\* addresses, each of them a slot start, and none twice.
C11_Original == pc = "live" => WellFormedFreeList

\* C11 amended: the free list is well formed in every state of a live pool
\* reached without giving dealloc a slot address that was not outstanding.
C11_FreeListWellFormed == (pc = "live" /\ viol = 0) => WellFormedFreeList

C11_Witness ==
    /\ pc = "live" /\ viol = 0 /\ ~fresh
    /\ elements_count = MaxCount
    /\ Len(FreeSeq(top, mem)) = 2
    /\ top # buffer + (elements_count - 1) * slot_stride
    /\ mem[top] # top - slot_stride

\* C12: a constructed pool sees one call of alloc (in Pool::new) and, once
\* dropped, one call of dealloc with the pointer and the layout of that
\* alloc; no call of Pool::alloc or Pool::dealloc reaches the allocator, and
\* drop is possible whatever current_count is.
C12_OneReserveOneRelease ==
    /\ pc \in {"live", "panicked"} =>
           /\ Len(heap_allocs) = 1
           /\ heap_deallocs = << >>
           /\ ENABLED Drop
    /\ pc = "dropped" =>
           /\ Len(heap_allocs) = 1
           /\ heap_deallocs = << << heap_allocs[1].ptr, heap_allocs[1].layout >> >>

C12_Witness ==
    /\ pc = "dropped" /\ ~fresh
    /\ out # {} /\ current_count < elements_count /\ current_count > 0
    /\ Len(heap_deallocs) = 1
    /\ heap_deallocs[1][2].size = layout.size
    /\ heap_deallocs[1][1] # top

\* C13: when alloc answers null in Pool::new, no pool is made, no link is
\* written, and nothing is handed to dealloc then or later.
C13_ReserveFailure ==
    (Len(heap_allocs) >= 1 /\ heap_allocs[1].ptr = NULL) =>
        /\ pc = "none"
        /\ Len(heap_allocs) = 1
        /\ mem = NoWords /\ top = NULL /\ buffer = NULL
        /\ elements_count = 0 /\ current_count = 0
        /\ heap_deallocs = << >>
        /\ ~ENABLED Drop

C13_Witness ==
    /\ pc = "none" /\ size = MaxSize /\ count = MaxCount
    /\ Len(heap_allocs) = 1 /\ heap_allocs[1].ptr = NULL
    /\ heap_allocs[1].layout.size > 0

\* C14: an alloc on a pool whose top is null returns null and leaves
\* current_count, top, elements_count, the region and every link as they were.
C14_Step ==
    (pc = "live" /\ top = NULL /\ lastOp' # "dealloc" /\ pc' # "dropped") =>
        /\ pc' = "live"
        /\ ret' = NULL
        /\ UNCHANGED poolVars

C14_EmptyAllocFrame == [][C14_Step]_vars

C14_Witness ==
    /\ pc = "live" /\ ~fresh /\ viol = 0
    /\ lastOp = "alloc" /\ ret = NULL /\ top = NULL
    /\ current_count = 0 /\ out = DOMAIN mem
    /\ elements_count = MaxCount

\* C15 as stated: every alloc on a pool whose top is not null returns the old
\* top, sets top to the link stored in that slot, takes one off current_count
\* and changes nothing else.
C15_OriginalStep ==
    (/\ pc = "live" /\ top # NULL
     /\ pc' = "panicked" \/ (pc' = "live" /\ lastOp' = "alloc")) =>
        /\ pc' = "live"
        /\ ret' = top
        /\ top' = mem[top]
        /\ current_count' = current_count - 1
        /\ UNCHANGED << elements_count, layout, buffer, mem >>

C15_Original == [][C15_OriginalStep]_vars

\* C15 amended: an alloc on a pool whose top is not null and whose
\* current_count is not 0 returns the old top, sets top to the link stored in
\* that slot, takes one off current_count and changes nothing else.
C15_Step ==
    (/\ pc = "live" /\ top # NULL /\ current_count # 0
     /\ pc' = "panicked" \/ (pc' = "live" /\ lastOp' = "alloc")) =>
        /\ pc' = "live"
        /\ ret' = top
        /\ top' = mem[top]
        /\ current_count' = current_count - 1
        /\ UNCHANGED << elements_count, layout, buffer, mem >>

C15_AllocPops == [][C15_Step]_vars

C15_Witness ==
    /\ pc = "live" /\ ~fresh /\ viol = 0 /\ foreign
    /\ lastOp = "alloc" /\ ret # NULL /\ reused = NULL
    /\ top # NULL /\ top # ret
    /\ current_count = 1 /\ elements_count = MaxCount

\* C16: a dealloc of an address is_manage accepts stores the old top in the
\* first word of that slot, makes the slot the top, adds one to current_count
\* and returns true; a dealloc of an outstanding address is always accepted.
C16_Step ==
    (pc = "live" /\ pc' = "live" /\ lastOp' = "dealloc") =>
        /\ is_manage(arg') =>
               /\ ok' = TRUE
               /\ mem' = [mem EXCEPT ![arg'] = top]
               /\ top' = arg'
               /\ current_count' = current_count + 1
               /\ UNCHANGED << elements_count, layout, buffer >>
        /\ arg' \in out => (is_manage(arg') /\ ok' = TRUE)

C16_ReleasePushes == [][C16_Step]_vars

C16_Witness ==
    /\ pc = "live" /\ viol = 0
    /\ lastOp = "dealloc" /\ ok /\ top = arg
    /\ mem[arg] # NULL /\ mem[arg] # arg
    /\ current_count = 2 /\ Cardinality(out) = elements_count - 2
    /\ elements_count = MaxCount

\* C17: right after Pool::new with count n, top is slot n-1, every slot k > 0
\* links to slot k-1 and slot 0 links to null; so, with no dealloc in between,
\* the i-th alloc (i = 1..n) returns buffer + (n-i)*stride.
C17_BootstrapOrder ==
    (pc = "live" /\ fresh) =>
        LET stride == SlotAlign(size) IN
        /\ lastOp = "none" =>
               /\ top = buffer + (count - 1) * stride
               /\ mem[buffer] = NULL
               /\ \A k \in 1..(count - 1) :
                      mem[buffer + k * stride] = buffer + (k - 1) * stride
        /\ \A i \in 1..Len(hist) :
               i <= count => hist[i] = buffer + (count - i) * stride

C17_Witness ==
    /\ pc = "live" /\ fresh
    /\ count = MaxCount /\ Len(hist) = MaxCount
    /\ hist[1] = buffer + layout.size - slot_stride
    /\ hist[MaxCount] = buffer
    /\ hist[1] > hist[2]

\* x is a power of two
RECURSIVE IsPow2(_)
IsPow2(x) == x = 1 \/ (x > 1 /\ x % 2 = 0 /\ IsPow2(x \div 2))

\* p is the smallest power of two >= x (the powers of two below p are at
\* most p/2)
LeastPow2Ge(p, x) ==
    /\ IsPow2(p)
    /\ p >= x
    /\ p = 1 \/ p \div 2 < x

\* C18: for size and count in 1..256, the stride between slots is the
\* smallest power of two >= max(size, PTR_SIZE), the region is stride * count
\* bytes, and its alignment is the smallest power of two >= that size.
C18_LayoutDerivation ==
    (pc = "live" /\ size \in 1..SIZE_MAX /\ count \in 1..COUNT_MAX) =>
        LET stride == IF count = 1 THEN layout.size ELSE top - mem[top] IN
        /\ LeastPow2Ge(stride, IF size > PTR_SIZE THEN size ELSE PTR_SIZE)
        /\ stride >= PTR_SIZE /\ stride >= size
        /\ top = buffer + (count - 1) * stride
        /\ layout.size = stride * count
        /\ LeastPow2Ge(layout.align, layout.size)
        /\ heap_allocs[1].layout = layout

C18_Witness ==
    /\ pc = "live" /\ size = 100 /\ count = 3
    /\ top - mem[top] = 128
    /\ layout = [size |-> 384, align |-> 512]

\* how often address a is met on the walk from t
Visits(a, t, m) ==
    Cardinality({ i \in 1..Len(FreeSeq(t, m)) : FreeSeq(t, m)[i] = a })

\* C19: the first dealloc of a slot that is not outstanding returns true and
\* pushes the slot as any release does; the walk from top then meets that
\* slot twice, and a state is reachable in which two allocs in a row have
\* returned the same slot.
C19_Step ==
    (/\ pc = "live" /\ pc' = "live" /\ lastOp' = "dealloc"
     /\ viol = 0 /\ is_manage(arg') /\ arg' \notin out) =>
        /\ ok' = TRUE
        /\ top' = arg'
        /\ mem'[arg'] = top
        /\ current_count' = current_count + 1
        /\ Visits(arg', top', mem') >= 2

C19_DoubleRelease == [][C19_Step]_vars

C19_Witness ==
    /\ pc = "live" /\ viol = 1 /\ aliased
    /\ lastOp = "alloc" /\ ret # NULL /\ ret \in out
    /\ elements_count = MaxCount

\* C20: in every state of a live pool reached without giving dealloc a slot
\* that was not outstanding, top is null exactly when current_count is 0, and
\* current_count plus the number of outstanding slots is elements_count.
C20_EmptyIffZero ==
    (pc = "live" /\ viol = 0) =>
        /\ (top = NULL) <=> (current_count = 0)
        /\ current_count + Cardinality(out) = elements_count

C20_Witness ==
    /\ pc = "live" /\ contract /\ lap >= 1
    /\ top = NULL /\ current_count = 0
    /\ Cardinality(out) = elements_count /\ elements_count = MaxCount
====
